---- MODULE Spec2Model ----
(***************************************************************************)
(* A model of the dns-packet decoder (src/src/lib.rs).                     *)
(*                                                                         *)
(* A buffer (&[u8]) is a sequence of bytes; Rust index i is element i+1.   *)
(* A Result is a record with a tag: Ok(v), Err(e), or Panic (an arithmetic *)
(* overflow in a build with overflow checks).  The cursors are u16: every  *)
(* addition on them goes through AddU16.                                   *)
(***************************************************************************)
EXTENDS Integers, Sequences, FiniteSets, TLC

VARIABLES
    packet,           \* the input buffer (value / self.packet)
    overflow_checks,  \* build profile: TRUE panics on overflow, FALSE wraps
    pc,               \* where the running entry point is
    position,         \* the caller's u16 cursor (*global_position)
    iter,             \* LabelSequenceIterator: [position, jump_counter]
    labels,           \* the labels the driver has collected so far
    name,             \* Question::try_from: the String built so far
    question,         \* RecordPreamble::try_from: the Question just decoded
    result,           \* what the entry point returned
    start,            \* the cursor value the running decoder was called with
    index,            \* the index argument of a get8/get16/get32 call
    header,           \* DnsPacket::try_from: the decoded header fields
    questions,        \* DnsPacket::try_from: Vec<Question> built so far
    answers,          \* DnsPacket::try_from: Vec<RecordPreamble> built so far
    log,              \* per record tried: [kind, start, ok, end]
    host_name,        \* main: opt.host_name, as its bytes
    request_packet,   \* main: the Vec<u8> the request is built in
    pending           \* main: the labels host_name.split('.') has yet to yield

vars == <<packet, overflow_checks, pc, position, iter, labels, name, question,
          result, start, index, header, questions, answers, log,
          host_name, request_packet, pending>>

\* the variables of main's request builder, and their value where no
\* request is built
build_vars == <<host_name, request_packet, pending>>
NoRequest == host_name = <<>> /\ request_packet = <<>> /\ pending = <<>>

----------------------------------------------------------------------------
(* Bounds of the checked inputs.                                           *)

MaxNameLen == 5
MaxChain == 7

----------------------------------------------------------------------------
(* Results and errors.                                                     *)

Ok(v) == [tag |-> "Ok", value |-> v]
Err(e) == [tag |-> "Err", error |-> e]
Panic == [tag |-> "Panic"]
Running == [tag |-> "Running"]

OutOfBounds(i, l) == [kind |-> "OutOfBounds", index |-> i, length |-> l]
JumpLimitExceeded == [kind |-> "JumpLimitExceeded"]

None == [some |-> FALSE]
Some(c) == [some |-> TRUE, content |-> c]

U16Modulus == 65536

\* x + d on u16: wraps, or panics when the build checks overflow.
AddU16(x, d) ==
    IF x + d < U16Modulus THEN Ok(x + d)
    ELSE IF overflow_checks THEN Panic
    ELSE Ok((x + d) % U16Modulus)

----------------------------------------------------------------------------
(* The bounds-checked readers.                                             *)

get8(i, value) ==
    IF i < Len(value) THEN Ok(value[i + 1])
    ELSE Err(OutOfBounds(i, Len(value)))

get16SpanStart(i, value) ==
    IF i + 1 < Len(value) THEN Ok((value[i + 1] * 256) + value[i + 2])
    ELSE Err(OutOfBounds(i, Len(value)))

get16(i, value) ==
    LET b == get8(i + 1, value) IN
    IF b.tag = "Err" THEN b ELSE
    LET a == get8(i, value) IN
    IF a.tag = "Err" THEN a ELSE
    Ok((a.value * 256) + b.value)

\* A u32 is kept as its two 16-bit halves, the number high * 2^16 + low:
\* TLC's integers stop at 2^31 - 1.
U32(high, low) == [high |-> high, low |-> low]

get32(i, value) ==
    LET d == get8(i + 3, value) IN
    IF d.tag = "Err" THEN d ELSE
    LET c == get8(i + 2, value) IN
    IF c.tag = "Err" THEN c ELSE
    LET b == get8(i + 1, value) IN
    IF b.tag = "Err" THEN b ELSE
    LET a == get8(i, value) IN
    IF a.tag = "Err" THEN a ELSE
    Ok(U32((a.value * 256) + b.value, (c.value * 256) + d.value))

----------------------------------------------------------------------------
(* LabelSequenceIterator::read_section.  The iterator state is             *)
(* s = [position, jump_counter, global_position].                          *)

\* byte & 0b11000000 == 0b11000000
IsPointerMarker(byte) == byte \div 64 = 3

\* byte & 0b0011_1111
LabelLength(byte) == byte % 64

PointerTargetUnmasked(word) == word
PointerTargetWideMask(word) == word % 32768
\* word & 0b0011_1111_1111_1111
PointerTarget(word) == word % 16384

AdvanceOnEveryJump(jump_counter) == TRUE
\* if self.jump_counter == 0: the global cursor still follows the local one
AdvancesGlobal(jump_counter) == jump_counter = 0

JumpLimitOffByOne(jump_counter) == jump_counter >= 5
JumpLimitLate(jump_counter) == jump_counter > 7
\* if self.jump_counter > 5
JumpLimitHit(jump_counter) == jump_counter > 5

\* the while loop that follows compression pointers
RECURSIVE PointerLoop(_, _)
PointerLoop(value, s) ==
    LET head == get8(s.position, value) IN
    IF head.tag = "Err" THEN [tag |-> "Err", error |-> head.error, self |-> s]
    ELSE IF ~IsPointerMarker(head.value) THEN [tag |-> "Ok", self |-> s]
    ELSE
    LET bumped == IF AdvancesGlobal(s.jump_counter)
                  THEN AddU16(s.global_position, 2)
                  ELSE Ok(s.global_position) IN
    IF bumped.tag = "Panic" THEN [tag |-> "Panic", self |-> s]
    ELSE
    LET s1 == [s EXCEPT !.global_position = bumped.value]
        word == get16(s.position, value) IN
    IF word.tag = "Err" THEN [tag |-> "Err", error |-> word.error, self |-> s1]
    ELSE
    LET s2 == [s1 EXCEPT !.position = PointerTarget(word.value),
                         !.jump_counter = s.jump_counter + 1] IN
    IF JumpLimitHit(s2.jump_counter)
    THEN [tag |-> "Err", error |-> JumpLimitExceeded, self |-> s2]
    ELSE PointerLoop(value, s2)

\* packet.get(old_position..new_position) of a range known to be in bounds
Slice(value, old_position, new_position) ==
    [k \in 1..(new_position - old_position) |-> value[old_position + k]]

read_section(value, s) ==
    LET loop == PointerLoop(value, s) IN
    IF loop.tag # "Ok" THEN loop ELSE
    LET s0 == loop.self
        byte == get8(s0.position, value) IN
    IF byte.tag = "Err" THEN [tag |-> "Err", error |-> byte.error, self |-> s0]
    ELSE
    LET length == LabelLength(byte.value)
        bumped == IF AdvancesGlobal(s0.jump_counter)
                  THEN AddU16(s0.global_position, 1 + length)
                  ELSE Ok(s0.global_position) IN
    IF bumped.tag = "Panic" THEN [tag |-> "Panic", self |-> s0]
    ELSE
    LET s1 == [s0 EXCEPT !.global_position = bumped.value] IN
    IF length = 0 THEN [tag |-> "Ok", value |-> None, self |-> s1]
    ELSE
    LET old_position == s0.position + 1
        new_position == old_position + length IN
    IF new_position > Len(value)
    THEN [tag |-> "Err", error |-> OutOfBounds(new_position - 1, Len(value)),
          self |-> s1]
    ELSE
    LET past == AddU16(s0.position, length) IN
    IF past.tag = "Panic" THEN [tag |-> "Panic", self |-> s1]
    ELSE
    LET next == AddU16(past.value, 1) IN
    IF next.tag = "Panic" THEN [tag |-> "Panic", self |-> s1]
    ELSE [tag |-> "Ok",
          value |-> Some(Slice(value, old_position, new_position)),
          self |-> [s1 EXCEPT !.position = next.value]]

\* LabelSequenceIterator::new
NewIterator(pos) == [position |-> pos, jump_counter |-> 0]

IterState(it, global) ==
    [position |-> it.position, jump_counter |-> it.jump_counter,
     global_position |-> global]

NoIterator == [position |-> 0, jump_counter |-> 0]

\* an iterator driven to exhaustion, its items collected: collect() stops at
\* the first error and at the end of the name
RECURSIVE Collect(_, _, _)
Collect(value, s, acc) ==
    LET r == read_section(value, s) IN
    IF r.tag # "Ok" THEN r
    ELSE IF r.value.some
    THEN Collect(value, r.self, Append(acc, r.value.content))
    ELSE [tag |-> "Ok", value |-> acc, self |-> r.self]

\* LabelSequenceIterator::new(&mut pos, value).collect()
CollectFrom(value, pos) == Collect(value, IterState(NewIterator(pos), pos), <<>>)
NoHeader == [decoded |-> FALSE]
NoQuestion == [decoded |-> FALSE]

----------------------------------------------------------------------------
(* The inputs of the name decoder: every buffer of up to MaxNameLen bytes  *)
(* over NameBytes, and pointer chains of up to MaxChain pointers.          *)

\* 0: terminator; 1, 2: label lengths and pointer targets; 65: a length
\* byte with the high bits 01, and a letter; 192: a pointer to offset < 256
NameBytes == {0, 1, 2, 65, 192}

Front(s) == SubSeq(s, 1, Len(s) - 1)

\* The name "a" at offset 0, then one element per entry of v: a pointer to
\* the element before it (to the name for the first), preceded by the label
\* "b" where the entry is TRUE.
RECURSIVE ChainBuffer(_)
ChainBuffer(v) ==
    IF v = <<>> THEN <<1, 97, 0>>
    ELSE LET before == ChainBuffer(Front(v))
             target == IF Len(v) = 1 THEN 0
                       ELSE Len(ChainBuffer(Front(Front(v))))
         IN before
            \o (IF v[Len(v)] THEN <<1, 98>> ELSE <<>>)
            \o <<192, target>>

\* The reply the tests decode: a question for google.com at offset 12 and an
\* answer at offset 28 whose name is a pointer to offset 12, with TTL 264.
RESPONSE_PACKET ==
    <<10, 153, 129, 128, 0, 1, 0, 1, 0, 0, 0, 0,
      6, 103, 111, 111, 103, 108, 101, 3, 99, 111, 109, 0, 0, 1, 0, 1,
      192, 12, 0, 1, 0, 1, 0, 0, 1, 8, 0, 4, 172, 217, 16, 142>>

ChainShapes == UNION {[1..n -> BOOLEAN] : n \in 1..MaxChain}

\* packet, start, position and iter for a decode of buffer b from offset c
NameInput(b, c) ==
    /\ packet = b
    /\ start = c
    /\ position = c
    /\ iter = NewIterator(c)

----------------------------------------------------------------------------
(* tests::label_sequence: an iterator made at a cursor and collected into  *)
(* a Result<Vec<_>, _>.                                                    *)

InitName ==
    /\ \/ \E n \in 0..MaxNameLen : \E b \in [1..n -> NameBytes] :
            \E c \in 0..n : NameInput(b, c)
       \/ \E v \in ChainShapes :
            \E c \in 0..Len(ChainBuffer(v)) : NameInput(ChainBuffer(v), c)
       \/ \E c \in 0..Len(RESPONSE_PACKET) : NameInput(RESPONSE_PACKET, c)
    /\ overflow_checks \in BOOLEAN
    /\ pc = "collect"
    /\ labels = <<>>
    /\ name = <<>>
    /\ question = NoQuestion
    /\ result = Running
    /\ index = 0
    /\ header = NoHeader
    /\ questions = <<>>
    /\ answers = <<>>
    /\ log = <<>>
    /\ NoRequest

\* one call of Iterator::next by collect
CollectNext ==
    /\ pc = "collect"
    /\ LET r == read_section(packet, IterState(iter, position)) IN
        /\ iter' = [position |-> r.self.position,
                    jump_counter |-> r.self.jump_counter]
        /\ position' = r.self.global_position
        /\ IF r.tag = "Panic"
           THEN /\ pc' = "done"
                /\ result' = Panic
                /\ labels' = labels
           ELSE IF r.tag = "Err"
           THEN /\ pc' = "done"
                /\ result' = Err(r.error)
                /\ labels' = labels
           ELSE IF r.value.some
           THEN /\ pc' = "collect"
                /\ result' = result
                /\ labels' = Append(labels, r.value.content)
           ELSE /\ pc' = "done"
                /\ result' = Ok(labels)
                /\ labels' = labels
    /\ UNCHANGED build_vars
    /\ UNCHANGED <<packet, overflow_checks, name, question, start, index,
                   header, questions, answers, log>>

NextName == CollectNext

SpecName == InitName /\ [][NextName]_vars

\* The buffers termination is checked on: every buffer of up to MaxLoopLen
\* bytes over a terminator, two label lengths that are also pointer targets,
\* and a pointer marker, so pointers to themselves, to each other, forward
\* and backward all occur.
MaxLoopLen == 4
LoopBytes == {0, 1, 2, 192}

InitLoop ==
    /\ packet = <<>>
    /\ start = 0
    /\ position = 0
    /\ iter = NoIterator
    /\ overflow_checks \in BOOLEAN
    /\ pc = "new"
    /\ labels = <<>>
    /\ name = <<>>
    /\ question = NoQuestion
    /\ result = Running
    /\ index = 0
    /\ header = NoHeader
    /\ questions = <<>>
    /\ answers = <<>>
    /\ log = <<>>
    /\ NoRequest

\* LabelSequenceIterator::new(&mut position, packet), for some buffer and
\* some cursor in it
NewCollect ==
    /\ pc = "new"
    /\ \E n \in 0..MaxLoopLen : \E b \in [1..n -> LoopBytes] : \E c \in 0..n :
            /\ packet' = b
            /\ start' = c
            /\ position' = c
            /\ iter' = NewIterator(c)
    /\ pc' = "collect"
    /\ UNCHANGED build_vars
    /\ UNCHANGED <<overflow_checks, labels, name, question, result, index,
                   header, questions, answers, log>>

\* while get8(self.position, self.packet)? & 0b11000000 == 0b11000000
AtPointer ==
    LET head == get8(iter.position, packet) IN
    head.tag = "Ok" /\ IsPointerMarker(head.value)

\* one turn of the while loop of read_section
FollowPointer ==
    /\ pc = "collect"
    /\ AtPointer
    /\ LET bumped == IF AdvancesGlobal(iter.jump_counter)
                     THEN AddU16(position, 2)
                     ELSE Ok(position)
           word == get16(iter.position, packet)
           jumps == iter.jump_counter + 1
       IN IF bumped.tag = "Panic"
          THEN /\ pc' = "done"
               /\ result' = Panic
               /\ UNCHANGED <<position, iter>>
          ELSE /\ position' = bumped.value
               /\ IF word.tag = "Err"
                  THEN /\ pc' = "done"
                       /\ result' = word
                       /\ UNCHANGED iter
                  ELSE /\ iter' = [position |-> PointerTarget(word.value),
                                   jump_counter |-> jumps]
                       /\ IF JumpLimitHit(jumps)
                          THEN /\ pc' = "done"
                               /\ result' = Err(JumpLimitExceeded)
                          ELSE UNCHANGED <<pc, result>>
    /\ UNCHANGED build_vars
    /\ UNCHANGED <<packet, overflow_checks, labels, name, question, start,
                   index, header, questions, answers, log>>

\* the rest of the call of next, once the while loop is left
ReadLabel ==
    /\ ~AtPointer
    /\ CollectNext

NextLoop ==
    \/ NewCollect
    \/ FollowPointer
    \/ ReadLabel

\* collect keeps calling next until it returns None or an error, and a call
\* runs to its return
SpecNameFair == InitLoop /\ [][NextLoop]_vars /\ WF_vars(NextLoop)

----------------------------------------------------------------------------
(* DnsPacket::try_from: the header.                                        *)

OpcodeByPosition(n) ==
    CASE n = 0 -> "Query"
      [] n = 1 -> "IQuery"
      [] n = 2 -> "Status"
      [] n = 3 -> "Notify"
      [] n = 4 -> "Update"
      [] n = 5 -> "DNSStatefulOperations"
      [] OTHER -> "Unassigned"
\* match (get8(2, value)? >> 3) & 0b1111
OpcodeOf(n) ==
    CASE n = 0 -> "Query"
      [] n = 1 -> "IQuery"
      [] n = 2 -> "Status"
      [] n = 4 -> "Notify"
      [] n = 5 -> "Update"
      [] n = 6 -> "DNSStatefulOperations"
      [] OTHER -> "Unassigned"

\* match get8(3, value)? & 0b1111: Result<(), RCode>
RCodeOf(n) ==
    CASE n = 0 -> Ok(<<>>)
      [] n = 1 -> Err("FormErr")
      [] n = 2 -> Err("ServFail")
      [] n = 3 -> Err("NXDomain")
      [] n = 4 -> Err("NotImp")
      [] n = 5 -> Err("Refused")
      [] n = 6 -> Err("YXDomain")
      [] n = 7 -> Err("YXRRSet")
      [] n = 8 -> Err("NXRRSet")
      [] n = 9 -> Err("NotAuth")
      [] n = 10 -> Err("NotZone")
      [] n = 11 -> Err("DSOTYPENI")
      [] OTHER -> Err("Unassigned")

RCodeBitsWithZ(byte) == byte % 32
\* get8(3, value)? & 0b1111
RCodeBits(byte) == byte % 16

\* lines 172-212: every read of the header, in the order the code makes them
DecodeHeader(value) ==
    LET packet_identifier == get16(0, value) IN
    IF packet_identifier.tag = "Err" THEN packet_identifier ELSE
    LET flags == get8(2, value) IN
    IF flags.tag = "Err" THEN flags ELSE
    LET codes == get8(3, value) IN
    IF codes.tag = "Err" THEN codes ELSE
    LET question_count == get16(4, value) IN
    IF question_count.tag = "Err" THEN question_count ELSE
    LET answer_count == get16(6, value) IN
    IF answer_count.tag = "Err" THEN answer_count ELSE
    LET authority_count == get16(8, value) IN
    IF authority_count.tag = "Err" THEN authority_count ELSE
    LET additional_count == get16(10, value) IN
    IF additional_count.tag = "Err" THEN additional_count ELSE
    Ok([packet_identifier |-> packet_identifier.value,
        query_response |-> IF flags.value \div 128 = 1 THEN "Response" ELSE "Query",
        operation_code |-> OpcodeOf((flags.value \div 8) % 16),
        authoritative_answer |-> (flags.value \div 4) % 2 = 1,
        truncated_message |-> (flags.value \div 2) % 2 = 1,
        recursion_desired |-> flags.value % 2 = 1,
        recursion_available |-> codes.value \div 128 = 1,
        response_code |-> RCodeOf(RCodeBits(codes.value)),
        question_count |-> question_count.value,
        answer_count |-> answer_count.value,
        authority_count |-> authority_count.value,
        additional_count |-> additional_count.value])

----------------------------------------------------------------------------
(* Question::try_from and RecordPreamble::try_from.                        *)

\* char::from(b): the code point with the byte's number
CharFrom(b) == b

ExtendNameUndotted(n, label) == n \o [k \in 1..Len(label) |-> CharFrom(label[k])]
\* if !name.is_empty() { name.push('.') }; name.extend(label chars): '.' is 46
ExtendName(n, label) ==
    (IF n # <<>> THEN Append(n, 46) ELSE n)
    \o [k \in 1..Len(label) |-> CharFrom(label[k])]

RecordTypeOf(n) == IF n = 1 THEN "AddressRecord" ELSE "Other"
ClassOf(n) == IF n = 1 THEN "Internet" ELSE "Other"

FieldsAtLocalCursor(global, it) == it.position + 1
\* *position once the iterator is exhausted: where type and class are read
FieldsAt(global, it) == global

\* lines 255-268: class, then type, then *position += 4
QuestionFields(value, n, at) ==
    LET class == get16(at + 2, value) IN
    IF class.tag = "Err" THEN [tag |-> "Err", error |-> class.error, position |-> at]
    ELSE
    LET type == get16(at, value) IN
    IF type.tag = "Err" THEN [tag |-> "Err", error |-> type.error, position |-> at]
    ELSE
    LET moved == AddU16(at, 4) IN
    IF moved.tag = "Panic" THEN [tag |-> "Panic", position |-> at]
    ELSE [tag |-> "Ok",
          value |-> [name |-> n,
                     type |-> RecordTypeOf(type.value),
                     class |-> ClassOf(class.value)],
          position |-> moved.value]

SkipRecordData(pos) == AddU16(pos, 6)
\* *position += 4 after the time to live
PastTimeToLive(pos) == AddU16(pos, 4)

\* lines 276-281: the time to live, then *position += 4
PreambleTail(value, q, at) ==
    LET time_to_live == get32(at, value) IN
    IF time_to_live.tag = "Err"
    THEN [tag |-> "Err", error |-> time_to_live.error, position |-> at]
    ELSE
    LET moved == PastTimeToLive(at) IN
    IF moved.tag = "Panic" THEN [tag |-> "Panic", position |-> at]
    ELSE [tag |-> "Ok",
          value |-> [question |-> q, time_to_live |-> time_to_live.value],
          position |-> moved.value]

----------------------------------------------------------------------------
(* DnsPacket::try_from, a step per call it makes.                          *)

MaxChunks == 4
MaxCount == 2

\* a 12-byte header with the given flag bytes and counts
MakeHeader(b2, b3, qd, an, ns, ar) ==
    <<147, 212, b2, b3, qd \div 256, qd % 256, an \div 256, an % 256,
      ns \div 256, ns % 256, ar \div 256, ar % 256>>

\* the pieces message bodies are put together from: a terminator, the label
\* "a", a pointer to offset 12, type A class IN, the same with a TTL of 264
Chunk(k) ==
    CASE k = 1 -> <<0>>
      [] k = 2 -> <<1, 97>>
      [] k = 3 -> <<192, 12>>
      [] k = 4 -> <<0, 1, 0, 1>>
      [] k = 5 -> <<0, 1, 0, 1, 0, 0, 1, 8>>

ChunkIds == 1..5

RECURSIVE Flatten(_)
Flatten(cs) == IF cs = <<>> THEN <<>> ELSE Chunk(cs[1]) \o Flatten(Tail(cs))

FlagSamples == {0, 129, 255}

Init ==
    /\ \/ \E n \in 0..Len(RESPONSE_PACKET) : packet = SubSeq(RESPONSE_PACKET, 1, n)
       \/ \E b \in 0..255 : \E f \in FlagSamples :
            \/ packet = MakeHeader(b, f, 0, 0, 1, 258)
            \/ packet = MakeHeader(f, b, 0, 0, 1, 258)
       \/ \E qd \in 0..MaxCount : \E an \in 0..MaxCount :
            \E n \in 0..MaxChunks : \E cs \in [1..n -> ChunkIds] :
                packet = MakeHeader(1, 0, qd, an, 0, 0) \o Flatten(cs)
    /\ overflow_checks \in BOOLEAN
    /\ pc = "header"
    /\ position = 0
    /\ start = 0
    /\ iter = NoIterator
    /\ labels = <<>>
    /\ name = <<>>
    /\ question = NoQuestion
    /\ result = Running
    /\ index = 0
    /\ header = NoHeader
    /\ questions = <<>>
    /\ answers = <<>>
    /\ log = <<>>
    /\ NoRequest

\* lines 172-214: the header, then let mut position = 12
ParseHeader ==
    /\ pc = "header"
    /\ LET h == DecodeHeader(packet) IN
        IF h.tag = "Err"
        THEN /\ pc' = "done"
             /\ result' = h
             /\ UNCHANGED <<header, position>>
        ELSE /\ pc' = "records"
             /\ header' = h.value
             /\ position' = 12
             /\ UNCHANGED result
    /\ UNCHANGED build_vars
    /\ UNCHANGED <<packet, overflow_checks, iter, labels, name, question, start,
                   index, questions, answers, log>>

QuestionsPendingInclusive == Len(questions) <= header.question_count
\* for _ in 0..question_count
QuestionsPending == Len(questions) < header.question_count

AnswersAndAuthorityPending ==
    /\ ~QuestionsPending
    /\ Len(answers) < header.answer_count + header.authority_count

\* (0..answer_count), once the questions are read
AnswersPending ==
    /\ ~QuestionsPending
    /\ Len(answers) < header.answer_count

RecordKind == IF QuestionsPending THEN "question" ELSE "answer"

LogEntry(ok, end) ==
    [kind |-> RecordKind, start |-> start, ok |-> ok, end |-> end]

\* what a failed or panicking callee makes try_from return (the ? operator)
Failure(r) == IF r.tag = "Panic" THEN Panic ELSE Err(r.error)

\* Question::try_from is entered, for a question or inside a preamble:
\* String::new() and LabelSequenceIterator::new(position, value)
EnterQuestion ==
    /\ pc = "records"
    /\ QuestionsPending \/ AnswersPending
    /\ pc' = "name"
    /\ start' = position
    /\ name' = <<>>
    /\ iter' = NewIterator(position)
    /\ UNCHANGED build_vars
    /\ UNCHANGED <<packet, overflow_checks, position, labels, question, result,
                   index, header, questions, answers, log>>

\* one turn of for label in LabelSequenceIterator: next(), label?, the push
NextLabel ==
    /\ pc = "name"
    /\ LET r == read_section(packet, IterState(iter, position)) IN
        /\ iter' = [position |-> r.self.position,
                    jump_counter |-> r.self.jump_counter]
        /\ position' = r.self.global_position
        /\ IF r.tag # "Ok"
           THEN /\ pc' = "done"
                /\ result' = Failure(r)
                /\ log' = Append(log, LogEntry(FALSE, r.self.global_position))
                /\ UNCHANGED name
           ELSE /\ pc' = IF r.value.some THEN "name" ELSE "fields"
                /\ name' = IF r.value.some
                           THEN ExtendName(name, r.value.content)
                           ELSE name
                /\ UNCHANGED <<result, log>>
    /\ UNCHANGED build_vars
    /\ UNCHANGED <<packet, overflow_checks, labels, question, start, index,
                   header, questions, answers>>

\* the rest of Question::try_from; a question is pushed, the question of a
\* preamble is kept for its time to live
ReadFields ==
    /\ pc = "fields"
    /\ LET r == QuestionFields(packet, name, FieldsAt(position, iter)) IN
        /\ position' = r.position
        /\ IF r.tag # "Ok"
           THEN /\ pc' = "done"
                /\ result' = Failure(r)
                /\ log' = Append(log, LogEntry(FALSE, r.position))
                /\ UNCHANGED <<questions, question>>
           ELSE IF QuestionsPending
           THEN /\ pc' = "records"
                /\ questions' = Append(questions, r.value)
                /\ log' = Append(log, LogEntry(TRUE, r.position))
                /\ UNCHANGED <<result, question>>
           ELSE /\ pc' = "ttl"
                /\ question' = r.value
                /\ UNCHANGED <<result, questions, log>>
    /\ UNCHANGED build_vars
    /\ UNCHANGED <<packet, overflow_checks, iter, labels, name, start, index,
                   header, answers>>

\* the rest of RecordPreamble::try_from; the preamble is collected
ReadTimeToLive ==
    /\ pc = "ttl"
    /\ LET r == PreambleTail(packet, question, position) IN
        /\ position' = r.position
        /\ IF r.tag # "Ok"
           THEN /\ pc' = "done"
                /\ result' = Failure(r)
                /\ log' = Append(log, LogEntry(FALSE, r.position))
                /\ UNCHANGED answers
           ELSE /\ pc' = "records"
                /\ answers' = Append(answers, r.value)
                /\ log' = Append(log, LogEntry(TRUE, r.position))
                /\ UNCHANGED result
    /\ UNCHANGED build_vars
    /\ UNCHANGED <<packet, overflow_checks, iter, labels, name, question, start,
                   index, header, questions>>

\* Ok(DnsPacket { .. })
ReturnPacket ==
    /\ pc = "records"
    /\ ~QuestionsPending
    /\ ~AnswersPending
    /\ pc' = "done"
    /\ result' = Ok([packet_identifier |-> header.packet_identifier,
                     query_response |-> header.query_response,
                     operation_code |-> header.operation_code,
                     authoritative_answer |-> header.authoritative_answer,
                     truncated_message |-> header.truncated_message,
                     recursion_desired |-> header.recursion_desired,
                     recursion_available |-> header.recursion_available,
                     response_code |-> header.response_code,
                     question_count |-> header.question_count,
                     answer_count |-> header.answer_count,
                     authority_count |-> header.authority_count,
                     additional_count |-> header.additional_count,
                     questions |-> questions,
                     answers |-> answers])
    /\ UNCHANGED build_vars
    /\ UNCHANGED <<packet, overflow_checks, position, iter, labels, name,
                   question, start, index, header, questions, answers, log>>

Next ==
    \/ ParseHeader
    \/ EnterQuestion
    \/ NextLabel
    \/ ReadFields
    \/ ReadTimeToLive
    \/ ReturnPacket

Spec == Init /\ [][Next]_vars

----------------------------------------------------------------------------
(* A single call of get8, get16 or get32.                                  *)

MaxGetLen == 4

GetBytes == {0, 1, 255}

InitGet ==
    /\ \E n \in 0..MaxGetLen : \E b \in [1..n -> GetBytes] : packet = b
    /\ index \in 0..(MaxGetLen + 1)
    /\ overflow_checks \in BOOLEAN
    /\ pc = "call"
    /\ position = 0
    /\ start = 0
    /\ iter = NoIterator
    /\ labels = <<>>
    /\ name = <<>>
    /\ question = NoQuestion
    /\ result = Running
    /\ header = NoHeader
    /\ questions = <<>>
    /\ answers = <<>>
    /\ log = <<>>
    /\ NoRequest

CallGet8 ==
    /\ pc = "call"
    /\ pc' = "get8"
    /\ result' = get8(index, packet)
    /\ UNCHANGED build_vars
    /\ UNCHANGED <<packet, overflow_checks, position, iter, labels, name,
                   question, start, index, header, questions, answers, log>>

CallGet16 ==
    /\ pc = "call"
    /\ pc' = "get16"
    /\ result' = get16(index, packet)
    /\ UNCHANGED build_vars
    /\ UNCHANGED <<packet, overflow_checks, position, iter, labels, name,
                   question, start, index, header, questions, answers, log>>

CallGet32 ==
    /\ pc = "call"
    /\ pc' = "get32"
    /\ result' = get32(index, packet)
    /\ UNCHANGED build_vars
    /\ UNCHANGED <<packet, overflow_checks, position, iter, labels, name,
                   question, start, index, header, questions, answers, log>>

NextGet == CallGet8 \/ CallGet16 \/ CallGet32

SpecGet == InitGet /\ [][NextGet]_vars

----------------------------------------------------------------------------
(* Claims about the name decoder, checked under SpecName.                  *)

NameDone == pc = "done"
NameOk == pc = "done" /\ result.tag = "Ok"

\* The bytes a name occupies at offset i, read off the buffer: 1 + length
\* for every label up to the first pointer, then 2 for that pointer, or 1
\* for the terminator when no pointer comes first.
RECURSIVE WireFootprint(_, _)
WireFootprint(value, i) ==
    IF i >= Len(value) THEN 0
    ELSE IF value[i + 1] >= 192 THEN 2
    ELSE IF value[i + 1] % 64 = 0 THEN 1
    ELSE 1 + (value[i + 1] % 64)
           + WireFootprint(value, i + 1 + (value[i + 1] % 64))

\* The pointers a name at offset i leads through, read off the buffer, n
\* counted so far: the walk ends at a terminator ("term"), at a byte that is
\* not in the buffer ("oob"), or at the sixth pointer ("sixth").
RECURSIVE ChainWalk(_, _, _)
ChainWalk(value, i, n) ==
    IF i >= Len(value) THEN [hops |-> n, end |-> "oob"]
    ELSE IF value[i + 1] >= 192
    THEN IF i + 1 >= Len(value) THEN [hops |-> n, end |-> "oob"]
         ELSE IF n = 5 THEN [hops |-> 6, end |-> "sixth"]
         ELSE ChainWalk(value, ((value[i + 1] - 192) * 256) + value[i + 2], n + 1)
    ELSE IF value[i + 1] % 64 = 0 THEN [hops |-> n, end |-> "term"]
    ELSE IF i + 1 + (value[i + 1] % 64) > Len(value)
    THEN [hops |-> n, end |-> "oob"]
    ELSE ChainWalk(value, i + 1 + (value[i + 1] % 64), n)

\* the name at the start offset is a lone pointer
StartsWithPointer == start + 1 < Len(packet) /\ packet[start + 1] >= 192
StartTarget == ((packet[start + 1] - 192) * 256) + packet[start + 2]

\* C1: whenever a name decodes successfully from offset c, the global
\* cursor ends at c plus the on-wire footprint of the name: 1 + length for
\* each label before the first pointer, plus 2 for the first pointer or 1
\* for the terminator; nothing read after the first pointer counts.
C1_CursorFootprint ==
    NameOk => position = start + WireFootprint(packet, start)

\* a successful decode that read a label, then followed two pointers
C1_Witness ==
    /\ NameOk
    /\ iter.jump_counter >= 2
    /\ ~StartsWithPointer
    /\ Len(labels) >= 3

\* the uncompressed google.com of the tests: 12 bytes from offset 12
C1_Google ==
    (NameDone /\ packet = RESPONSE_PACKET /\ start = 12) =>
        /\ result = Ok(<<(<<103, 111, 111, 103, 108, 101>>), (<<99, 111, 109>>)>>)
        /\ position = 24

\* C2: when the name at p decodes following at most 4 pointers, a name that
\* is only a pointer to p, at any offset q, decodes to the same labels and
\* leaves the cursor at q + 2.
C2_PointerName ==
    (NameDone /\ StartsWithPointer) =>
        LET target == CollectFrom(packet, StartTarget) IN
        (target.tag = "Ok" /\ target.self.jump_counter <= 4) =>
            /\ result = Ok(target.value)
            /\ position = start + 2

\* a lone pointer to a name that itself follows 4 pointers and has labels
C2_Witness ==
    /\ NameOk
    /\ StartsWithPointer
    /\ CollectFrom(packet, StartTarget).tag = "Ok"
    /\ CollectFrom(packet, StartTarget).self.jump_counter = 4
    /\ Len(labels) >= 2

\* C3: with every pointer byte in the buffer, a name that leads through a
\* sixth pointer fails with JumpLimitExceeded, at that pointer; a name that
\* leads through exactly 5 pointers to a terminated label sequence decodes.
C3_JumpLimit ==
    NameDone =>
        LET walk == ChainWalk(packet, start, 0) IN
        /\ walk.end = "sixth" => result = Err(JumpLimitExceeded)
        /\ result = Err(JumpLimitExceeded) =>
               walk.end = "sixth" /\ iter.jump_counter = 6
        /\ (walk.end = "term" /\ walk.hops = 5) => result.tag = "Ok"

\* a decode that followed exactly 5 pointers, with labels between them
C3_Witness ==
    /\ NameOk
    /\ iter.jump_counter = 5
    /\ Len(labels) >= 3

----------------------------------------------------------------------------
(* Claims about get8, get16 and get32, checked under SpecGet.              *)

\* the big-endian number in the two bytes at offset i
BE16(value, i) == (value[i + 1] * 256) + value[i + 2]

\* what a reader of n bytes at offset i returns when all of them are there
BigEndian(value, i, n) ==
    CASE n = 1 -> value[i + 1]
      [] n = 2 -> BE16(value, i)
      [] n = 4 -> U32(BE16(value, i), BE16(value, i + 2))

GetWidth == CASE pc = "get8" -> 1 [] pc = "get16" -> 2 [] pc = "get32" -> 4

\* C5: a reader returns the big-endian value of its bytes, or OutOfBounds
\* with the buffer size and the smallest position of its span that is not
\* in the buffer.
C5_FirstOffendingIndex ==
    pc \in {"get8", "get16", "get32"} =>
        IF index + GetWidth <= Len(packet)
        THEN result = Ok(BigEndian(packet, index, GetWidth))
        ELSE result = Err(OutOfBounds(IF index < Len(packet) THEN Len(packet) ELSE index,
                                      Len(packet)))

----------------------------------------------------------------------------
(* Claims about DnsPacket::try_from, checked under Spec.                   *)

Done == pc = "done"
Returned == pc = "done" /\ result.tag = "Ok"
Failed == pc = "done" /\ result.tag = "Err"
HeaderRead == pc # "header" /\ Len(packet) >= 12

QDCOUNT == BE16(packet, 4)
ANCOUNT == BE16(packet, 6)

Bit(byte, k) == (byte \div (2 ^ k)) % 2

\* C4: a buffer shorter than 12 bytes fails with OutOfBounds whose index and
\* length are both the buffer length.
C4_ShortBufferIndex ==
    (Done /\ Len(packet) < 12) =>
        result = Err(OutOfBounds(Len(packet), Len(packet)))

NoFailure == [kind |-> "none"]

\* The error a record at offset i fails with while its name is read, read
\* off the buffer (n pointers followed so far), or NoFailure.
RECURSIVE NameFailure(_, _, _)
NameFailure(value, i, n) ==
    IF i >= Len(value) THEN OutOfBounds(i, Len(value))
    ELSE IF value[i + 1] >= 192
    THEN IF i + 1 >= Len(value) THEN OutOfBounds(i + 1, Len(value))
         ELSE IF n = 5 THEN JumpLimitExceeded
         ELSE NameFailure(value, ((value[i + 1] - 192) * 256) + value[i + 2], n + 1)
    ELSE IF value[i + 1] % 64 = 0 THEN NoFailure
    ELSE IF i + (value[i + 1] % 64) >= Len(value)
    THEN OutOfBounds(i + (value[i + 1] % 64), Len(value))
    ELSE NameFailure(value, i + 1 + (value[i + 1] % 64), n)

\* the error a record of the given kind at offset i fails with: in its
\* name, else at the last of the 4 bytes of type and class, else (a
\* preamble) at the last of the 4 bytes of the time to live
RecordFailure(value, kind, i) ==
    LET n == i + WireFootprint(value, i) IN
    IF NameFailure(value, i, 0) # NoFailure THEN NameFailure(value, i, 0)
    ELSE IF n + 3 >= Len(value) THEN OutOfBounds(n + 3, Len(value))
    ELSE IF kind = "answer" /\ n + 7 >= Len(value) THEN OutOfBounds(n + 7, Len(value))
    ELSE NoFailure

\* C6: a returned message has exactly QDCOUNT questions and ANCOUNT answers
\* (the 16-bit values at offsets 4 and 6); a failed decode returns only the
\* error of the first record that failed, which is the last one tried.
C6_AllOrNothing ==
    /\ Returned =>
        /\ Len(result.value.questions) = QDCOUNT
        /\ Len(result.value.answers) = ANCOUNT
        /\ Len(log) = QDCOUNT + ANCOUNT
        /\ \A i \in 1..Len(log) : log[i].ok
    /\ Failed =>
        /\ DOMAIN result = {"tag", "error"}
        /\ log = <<>> => Len(packet) < 12 /\ result.error.kind = "OutOfBounds"
        /\ log # <<>> =>
            /\ \A i \in 1..Len(log) : log[i].ok <=> i < Len(log)
            /\ result.error = RecordFailure(packet, log[Len(log)].kind, log[Len(log)].start)

\* a decode that fails in its third record, after a question and an answer
C6_Witness ==
    /\ Failed
    /\ Len(log) = 3
    /\ Len(questions) = 1
    /\ Len(answers) = 1

\* C7: the first record starts at offset 12 and each record where the one
\* before it ended; the first QDCOUNT records are questions, the others
\* preambles; a question ends 4 bytes and a preamble 8 bytes after its name
\* on the wire, the time to live being the 4 bytes that follow the class.
C7_CursorThreading ==
    HeaderRead =>
        /\ Len(log) <= QDCOUNT + ANCOUNT
        /\ pc \in {"name", "fields", "ttl"} =>
               start = IF log = <<>> THEN 12 ELSE log[Len(log)].end
        /\ \A i \in 1..Len(log) :
            /\ log[i].start = IF i = 1 THEN 12 ELSE log[i - 1].end
            /\ log[i].kind = IF i <= QDCOUNT THEN "question" ELSE "answer"
            /\ log[i].ok =>
                LET n == log[i].start + WireFootprint(packet, log[i].start) IN
                IF log[i].kind = "question"
                THEN log[i].end = n + 4
                ELSE /\ log[i].end = n + 8
                     /\ answers[i - QDCOUNT].time_to_live
                            = U32(BE16(packet, n + 4), BE16(packet, n + 6))

\* a returned message of a question and then a preamble whose name is a
\* pointer, decoded to the end of the buffer
C7_Witness ==
    /\ Returned
    /\ Len(log) = 2
    /\ log[1].kind = "question"
    /\ log[2].kind = "answer"
    /\ packet[log[2].start + 1] = 192
    /\ log[2].end = log[2].start + 10
    /\ log[2].end = Len(packet)

\* the labels joined with '.' (46)
RECURSIVE JoinLabels(_)
JoinLabels(ls) ==
    IF ls = <<>> THEN <<>>
    ELSE IF Len(ls) = 1 THEN ls[1]
    ELSE ls[1] \o <<46>> \o JoinLabels(Tail(ls))

\* what C8 says of a question q decoded from offset from
QuestionAsClaimed(q, from) ==
    LET n == from + WireFootprint(packet, from) IN
    /\ n + 4 <= Len(packet)
    /\ q.type = IF BE16(packet, n) = 1 THEN "AddressRecord" ELSE "Other"
    /\ q.class = IF BE16(packet, n + 2) = 1 THEN "Internet" ELSE "Other"
    /\ q.name = JoinLabels(CollectFrom(packet, from).value)

\* C8: a decoded question has type AddressRecord iff the 16-bit value just
\* past its name on the wire is 1, class Internet iff the next 16-bit value
\* is 1, the labels joined with '.' as its name, and leaves the cursor 4
\* bytes past the name, also when the name ends in a pointer.
C8_QuestionFields ==
    HeaderRead =>
        /\ \A i \in 1..Len(log) :
            log[i].ok =>
                IF log[i].kind = "question"
                THEN /\ QuestionAsClaimed(questions[i], log[i].start)
                     /\ log[i].end = log[i].start + WireFootprint(packet, log[i].start) + 4
                ELSE QuestionAsClaimed(answers[i - QDCOUNT].question, log[i].start)
        /\ pc = "ttl" =>
            /\ QuestionAsClaimed(question, start)
            /\ position = start + WireFootprint(packet, start) + 4

\* the question of a preamble whose name is a pointer to a name of two
\* labels has been decoded, of type A and class IN
C8_Witness ==
    /\ pc = "ttl"
    /\ packet[start + 1] = 192
    /\ Len(CollectFrom(packet, start).value) = 2
    /\ Len(question.name) >= 3
    /\ question.type = "AddressRecord"
    /\ question.class = "Internet"

\* the operation code of the 4-bit value n
OpcodeAsClaimed(n) ==
    IF n \in {3} \cup 7..15 THEN "Unassigned"
    ELSE CASE n = 0 -> "Query"
           [] n = 1 -> "IQuery"
           [] n = 2 -> "Status"
           [] n = 4 -> "Notify"
           [] n = 5 -> "Update"
           [] n = 6 -> "DNSStatefulOperations"

\* C9: whatever byte 2 is, the header decodes; the role is Response iff bit
\* 7 is set, the operation code is that of bits 3-6, and authoritative,
\* truncated and recursion-desired are bits 2, 1 and 0.
C9_FlagsByte ==
    HeaderRead =>
        /\ header # NoHeader
        /\ header.query_response = "Response" <=> Bit(packet[3], 7) = 1
        /\ header.query_response \in {"Query", "Response"}
        /\ header.operation_code = OpcodeAsClaimed((packet[3] \div 8) % 16)
        /\ header.authoritative_answer <=> Bit(packet[3], 2) = 1
        /\ header.truncated_message <=> Bit(packet[3], 1) = 1
        /\ header.recursion_desired <=> Bit(packet[3], 0) = 1
        /\ Returned =>
            /\ result.value.query_response = header.query_response
            /\ result.value.operation_code = header.operation_code
            /\ result.value.authoritative_answer = header.authoritative_answer
            /\ result.value.truncated_message = header.truncated_message
            /\ result.value.recursion_desired = header.recursion_desired

\* a returned response with the reserved operation code 3, authoritative,
\* not truncated
C9_Witness ==
    /\ Returned
    /\ (packet[3] \div 8) % 16 = 3
    /\ result.value.query_response = "Response"
    /\ result.value.operation_code = "Unassigned"
    /\ result.value.authoritative_answer
    /\ ~result.value.truncated_message

\* the response status of the 4-bit value n
RCodeAsClaimed(n) ==
    IF n = 0 THEN Ok(<<>>)
    ELSE IF n >= 12 THEN Err("Unassigned")
    ELSE Err(<<"FormErr", "ServFail", "NXDomain", "NotImp", "Refused", "YXDomain",
               "YXRRSet", "NXRRSet", "NotAuth", "NotZone", "DSOTYPENI">>[n])

\* the buffer with bits 4-6 of byte 3 cleared
WithoutZ(value) ==
    [value EXCEPT ![4] = (128 * Bit(value[4], 7)) + (value[4] % 16)]

\* C10: whatever byte 3 is, recursion-available is bit 7, the response
\* status is that of bits 0-3 (0 Ok, 1..11 the listed codes in order, 12..15
\* Unassigned), and bits 4-6 change no decoded field.
C10_CodesByte ==
    HeaderRead =>
        /\ header.recursion_available <=> Bit(packet[4], 7) = 1
        /\ header.response_code = RCodeAsClaimed(packet[4] % 16)
        /\ DecodeHeader(WithoutZ(packet)) = Ok(header)
        /\ Returned =>
            /\ result.value.recursion_available = header.recursion_available
            /\ result.value.response_code = header.response_code

\* a returned message whose byte 3 has Z bits set and a status above 11
C10_Witness ==
    /\ Returned
    /\ (packet[4] \div 16) % 8 = 7
    /\ packet[4] % 16 >= 12
    /\ result.value.recursion_available
    /\ result.value.response_code = Err("Unassigned")

----------------------------------------------------------------------------
(* main: the request built for opt.host_name (src/src/main.rs), and the    *)
(* decode of the bytes it built.                                           *)

MaxPieces == 4

LabelSize(label) == [kind |-> "LabelSize", label |-> label]
LabelInvalidCharacter(label) == [kind |-> "LabelInvalidCharacter", label |-> label]

\* the header main pushes: id 0, RD set, QDCOUNT 1, the other counts 0
RequestHeader == <<0, 0, 1, 0, 0, 1, 0, 0, 0, 0, 0, 0>>

\* push(0), then the question type and the question class
RequestTail == <<0, 0, 1, 0, 1>>

\* host_name.split('.'): the runs between the '.' bytes (46), empty ones too
RECURSIVE Split(_)
Split(s) ==
    IF \A k \in 1..Len(s) : s[k] # 46 THEN <<s>>
    ELSE LET k == CHOOSE i \in 1..Len(s) :
                    s[i] = 46 /\ \A j \in 1..(i - 1) : s[j] # 46
         IN <<SubSeq(s, 1, k - 1)>> \o Split(SubSeq(s, k + 1, Len(s)))

\* u8::try_from(label.len()).ok()
U8TryFrom(n) == IF n <= 255 THEN Some(n) ELSE None

LabelSizeOkOffByOne(l) == ~(l = 0 \/ l > 64)
\* if l == 0 || l > 63 { None } else { Some(l) }
LabelSizeOk(l) == ~(l = 0 \/ l > 63)

\* b'0'..=b'9' | b'a'..=b'z' | b'A'..=b'Z'
IsAlphanumeric(byte) == byte \in (48..57) \cup (97..122) \cup (65..90)

\* n bytes b
Run(n, b) == [k \in 1..n |-> b]

\* what host names are put together from: "a", ".", "!", 63 times "b",
\* 192 times "c"
Piece(k) ==
    CASE k = 1 -> <<97>>
      [] k = 2 -> <<46>>
      [] k = 3 -> <<33>>
      [] k = 4 -> Run(63, 98)
      [] k = 5 -> Run(192, 99)

PieceIds == 1..5

RECURSIVE JoinPieces(_)
JoinPieces(ps) == IF ps = <<>> THEN <<>> ELSE Piece(ps[1]) \o JoinPieces(Tail(ps))

\* "google.com", "ex!mple.com"
GoogleCom == <<103, 111, 111, 103, 108, 101, 46, 99, 111, 109>>
ExmpleCom == <<101, 120, 33, 109, 112, 108, 101, 46, 99, 111, 109>>

InitBuild ==
    /\ \/ \E n \in 0..MaxPieces : \E ps \in [1..n -> PieceIds] :
            host_name = JoinPieces(ps)
       \/ \E b \in 0..255 : host_name = <<97, b>>
       \/ host_name \in {GoogleCom, ExmpleCom}
    /\ request_packet = RequestHeader
    /\ pending = Split(host_name)
    /\ overflow_checks \in BOOLEAN
    /\ pc = "label"
    /\ packet = <<>>
    /\ position = 0
    /\ start = 0
    /\ iter = NoIterator
    /\ labels = <<>>
    /\ name = <<>>
    /\ question = NoQuestion
    /\ result = Running
    /\ index = 0
    /\ header = NoHeader
    /\ questions = <<>>
    /\ answers = <<>>
    /\ log = <<>>

\* one turn of the loop over host_name.split('.')
PushLabel ==
    /\ pc = "label"
    /\ pending # <<>>
    /\ LET label == Head(pending)
           length == U8TryFrom(Len(label))
           invalid == {k \in 1..Len(label) : ~IsAlphanumeric(label[k])}
       IN IF ~length.some \/ ~LabelSizeOk(length.content)
          THEN /\ result' = Err(LabelSize(label))
               /\ pc' = "done"
               /\ UNCHANGED <<request_packet, pending>>
          ELSE IF invalid # {}
          THEN LET k == CHOOSE i \in invalid : \A j \in invalid : i <= j IN
               /\ request_packet' = request_packet \o <<length.content>>
                                        \o SubSeq(label, 1, k - 1)
               /\ result' = Err(LabelInvalidCharacter(label))
               /\ pc' = "done"
               /\ UNCHANGED pending
          ELSE /\ request_packet' = request_packet \o <<length.content>> \o label
               /\ pending' = Tail(pending)
               /\ UNCHANGED <<pc, result>>
    /\ UNCHANGED <<packet, overflow_checks, position, iter, labels, name,
                   question, start, index, header, questions, answers, log,
                   host_name>>

\* after the loop: the terminator, the type and the class
FinishRequest ==
    /\ pc = "label"
    /\ pending = <<>>
    /\ request_packet' = request_packet \o RequestTail
    /\ pc' = "built"
    /\ UNCHANGED <<packet, overflow_checks, position, iter, labels, name,
                   question, result, start, index, header, questions, answers,
                   log, host_name, pending>>

\* DnsPacket::try_from(&request_packet)
DecodeRequest ==
    /\ pc = "built"
    /\ packet' = request_packet
    /\ pc' = "header"
    /\ UNCHANGED <<overflow_checks, position, iter, labels, name, question,
                   result, start, index, header, questions, answers, log,
                   build_vars>>

NextBuild ==
    \/ PushLabel
    \/ FinishRequest
    \/ DecodeRequest
    \/ ParseHeader
    \/ EnterQuestion
    \/ NextLabel
    \/ ReadFields
    \/ ReturnPacket

SpecBuild == InitBuild /\ [][NextBuild]_vars

----------------------------------------------------------------------------
(* Claims about the request builder, checked under SpecBuild.              *)

IsLetterOrDigit(byte) ==
    \/ byte \in 48..57
    \/ byte \in 65..90
    \/ byte \in 97..122

WrongSize(label) == Len(label) = 0 \/ Len(label) > 63
Offending(label) ==
    WrongSize(label) \/ \E k \in 1..Len(label) : ~IsLetterOrDigit(label[k])

BuildFailed ==
    result.tag = "Err" /\ result.error.kind \in {"LabelSize", "LabelInvalidCharacter"}

\* the index of the first offending label of the host name, 0 if none
FirstOffending ==
    LET ls == Split(host_name)
        bad == {i \in 1..Len(ls) : Offending(ls[i])}
    IN IF bad = {} THEN 0 ELSE CHOOSE i \in bad : \A j \in bad : i <= j

\* C11: the builder fails iff a label of the host name split on '.' is
\* offending, with the error of the first such label: the size error if it
\* has 0 or more than 63 bytes, else the invalid-character error, citing it.
C11_FirstOffendingLabel ==
    pc # "label" =>
        IF FirstOffending = 0 THEN ~BuildFailed
        ELSE LET label == Split(host_name)[FirstOffending] IN
             /\ pc = "done"
             /\ result = Err(IF WrongSize(label) THEN LabelSize(label)
                             ELSE LabelInvalidCharacter(label))
             /\ host_name = ExmpleCom => result.error.label = <<101, 120, 33, 109, 112, 108, 101>>
             /\ host_name = <<97, 46, 46, 97>> => result = Err(LabelSize(<<>>))

\* the second label is cited for its character although the third has a
\* wrong size
C11_Witness ==
    /\ pc = "done"
    /\ Len(Split(host_name)) >= 3
    /\ WrongSize(Split(host_name)[3])
    /\ result = Err(LabelInvalidCharacter(Split(host_name)[2]))

\* C12: the bytes built for an accepted host name decode to a query with
\* recursion desired, one question of type A and class IN named as the host
\* name, no answer, and the cursor at the end of the bytes.
C12_RoundTrip ==
    /\ pc = "built" => FirstOffending = 0
    /\ (pc = "done" /\ ~BuildFailed) =>
        /\ packet = request_packet
        /\ Returned
        /\ result.value.query_response = "Query"
        /\ result.value.recursion_desired
        /\ result.value.question_count = 1
        /\ result.value.answer_count = 0
        /\ result.value.questions =
               <<[name |-> host_name, type |-> "AddressRecord", class |-> "Internet"]>>
        /\ result.value.answers = <<>>
        /\ position = Len(request_packet)

\* a name of a 63-byte label and more has made the round trip
C12_Witness ==
    /\ Returned
    /\ packet = request_packet
    /\ Len(Split(host_name)) >= 2
    /\ \E i \in 1..Len(Split(host_name)) : Len(Split(host_name)[i]) = 63

----------------------------------------------------------------------------
(* Claims about the steps of the name decoder.                             *)

\* C13: on every buffer and start offset the name decoder ends, with the end
\* of the name, OutOfBounds or JumpLimitExceeded; it follows at most 6
\* pointers, and a step that yields a label without following a pointer
\* moves the local cursor forward.  (Under SpecNameFair a step is a turn of
\* the pointer loop or the rest of a call.)
C13_Terminates ==
    /\ pc = "collect" ~> pc = "done"
    /\ [](pc = "done" =>
            \/ result.tag = "Ok"
            \/ result.tag = "Err"
                 /\ result.error.kind \in {"OutOfBounds", "JumpLimitExceeded"})
    /\ [](iter.jump_counter <= 6)
    /\ [][(pc = "collect" /\ pc' = "collect"
                /\ iter'.jump_counter = iter.jump_counter)
            => iter'.position > iter.position]_vars

\* a pointer that points at itself has ended the decode at its 6th hop
C13_Witness ==
    /\ pc = "done"
    /\ start + 2 <= Len(packet)
    /\ packet[start + 1] = 192
    /\ packet[start + 2] = start
    /\ iter.jump_counter = 6
    /\ result = Err(JumpLimitExceeded)

----------------------------------------------------------------------------
(* Claims about the failures of DnsPacket::try_from, checked under Spec.   *)

\* C14: a decode that needs a byte past the end of the buffer fails, a
\* decoded record lies inside the buffer, and an OutOfBounds error carries
\* the buffer size as length and an index that is not below it.
C14_NoReadOutside ==
    /\ (result.tag = "Err" /\ result.error.kind = "OutOfBounds") =>
            /\ result.error.length = Len(packet)
            /\ result.error.index >= Len(packet)
    /\ (Done /\ Len(packet) < 12) =>
            Failed /\ result.error.kind = "OutOfBounds"
    /\ HeaderRead =>
        \A i \in 1..Len(log) :
            /\ log[i].ok <=> RecordFailure(packet, log[i].kind, log[i].start) = NoFailure
            /\ log[i].ok => log[i].end <= Len(packet)

\* a label that runs past the end of the buffer has ended the decode
C14_Witness ==
    /\ Failed
    /\ log # <<>>
    /\ result.error.kind = "OutOfBounds"
    /\ result.error.index > Len(packet)
    /\ packet[log[Len(log)].start + 1] \in 1..63

\* C15: a decode fails only with OutOfBounds or JumpLimitExceeded; a buffer
\* of 12 bytes or more whose QDCOUNT and ANCOUNT are 0 decodes, whatever its
\* other header bytes and the bytes that follow, to a message without
\* questions and answers, NSCOUNT and ARCOUNT being recorded and no record
\* being decoded for them.
C15_OnlyTwoFailures ==
    /\ Done => result.tag \in {"Ok", "Err"}
    /\ Failed => result.error.kind \in {"OutOfBounds", "JumpLimitExceeded"}
    /\ HeaderRead =>
        /\ header.authority_count = BE16(packet, 8)
        /\ header.additional_count = BE16(packet, 10)
        /\ Len(log) <= QDCOUNT + ANCOUNT
        /\ (QDCOUNT = 0 /\ ANCOUNT = 0) => pc \in {"records", "done"}
        /\ (Done /\ QDCOUNT = 0 /\ ANCOUNT = 0) =>
            /\ Returned
            /\ result.value.questions = <<>>
            /\ result.value.answers = <<>>
            /\ result.value.authority_count = BE16(packet, 8)
            /\ result.value.additional_count = BE16(packet, 10)

\* a header with all flag and code bits set, no question, no answer, NSCOUNT
\* 1 and ARCOUNT 258 has been decoded
C15_Witness ==
    /\ Returned
    /\ packet[3] = 255
    /\ packet[4] = 255
    /\ QDCOUNT = 0
    /\ ANCOUNT = 0
    /\ result.value.authority_count = 1
    /\ result.value.additional_count = 258
    /\ result.value.operation_code = "Unassigned"

----------------------------------------------------------------------------
(* The iterator stepped once more after it returned None.                  *)

\* one more call of Iterator::next on an iterator that has returned None
StepAgain ==
    /\ pc = "done"
    /\ result.tag = "Ok"
    /\ LET r == read_section(packet, IterState(iter, position)) IN
        /\ iter' = [position |-> r.self.position,
                    jump_counter |-> r.self.jump_counter]
        /\ position' = r.self.global_position
        /\ pc' = "again"
        /\ IF r.tag = "Panic"
           THEN /\ result' = Panic
                /\ labels' = labels
           ELSE IF r.tag = "Err"
           THEN /\ result' = Err(r.error)
                /\ labels' = labels
           ELSE IF r.value.some
           THEN /\ result' = Running
                /\ labels' = Append(labels, r.value.content)
           ELSE /\ result' = Ok(labels)
                /\ labels' = labels
    /\ UNCHANGED build_vars
    /\ UNCHANGED <<packet, overflow_checks, name, question, start, index,
                   header, questions, answers, log>>

NextAgain ==
    \/ CollectNext
    \/ StepAgain

SpecAgain == InitName /\ [][NextAgain]_vars

----------------------------------------------------------------------------
(* Claims about the two cursors of the name decoder.                       *)

\* C16: between calls, the local cursor equals the global cursor while the
\* jump counter is 0, and a call made with the jump counter at 1 or more
\* leaves the global cursor as it is.
C16_DualCursor ==
    /\ [](iter.jump_counter = 0 => iter.position = position)
    /\ [][iter.jump_counter >= 1 => position' = position]_vars

\* the second half of C16 alone: past the first pointer the global cursor
\* is frozen
C16_GlobalFrozen == [][iter.jump_counter >= 1 => position' = position]_vars

\* C18: a call made after the end of the name was reported reports the end
\* again, yields no label and leaves the global cursor unchanged.
C18_EndIsStable ==
    [][(pc = "done" /\ pc' = "again") =>
            /\ result' = result
            /\ labels' = labels
            /\ position' = position]_vars

\* what the call after the end does: it reports the end again and yields no
\* label, and moves the global cursor by 1 exactly when no pointer was
\* followed
C18_EndRepeats ==
    [][(pc = "done" /\ pc' = "again") =>
            /\ result' = result
            /\ labels' = labels
            /\ iter' = iter
            /\ position' = IF iter.jump_counter = 0 THEN position + 1 ELSE position]_vars

----------------------------------------------------------------------------
(* DnsPacket::try_from on buffers that end inside a name: the message      *)
(* bodies of Init, shorter, followed by the start of a label or pointer.   *)

MaxBodyChunks == 3

\* nothing; the length byte of a 63-byte label; the first byte of a
\* pointer; a 2-byte label cut after its first byte
Stub(k) ==
    CASE k = 1 -> <<>>
      [] k = 2 -> <<63>>
      [] k = 3 -> <<192>>
      [] k = 4 -> <<2, 97>>

StubIds == 1..4

InitRange ==
    /\ \E qd \in 0..MaxCount : \E an \in 0..MaxCount :
         \E n \in 0..MaxBodyChunks : \E cs \in [1..n -> ChunkIds] :
           \E k \in StubIds :
             packet = MakeHeader(1, 0, qd, an, 0, 0) \o Flatten(cs) \o Stub(k)
    /\ overflow_checks \in BOOLEAN
    /\ pc = "header"
    /\ position = 0
    /\ start = 0
    /\ iter = NoIterator
    /\ labels = <<>>
    /\ name = <<>>
    /\ question = NoQuestion
    /\ result = Running
    /\ index = 0
    /\ header = NoHeader
    /\ questions = <<>>
    /\ answers = <<>>
    /\ log = <<>>
    /\ NoRequest

SpecRange == InitRange /\ [][Next]_vars

----------------------------------------------------------------------------
(* Claims about the range of the cursors, checked under SpecRange.         *)

Max(a, b) == IF a >= b THEN a ELSE b

\* C17: throughout a message decode the global cursor is at most the buffer
\* length plus 63 and the local cursor at most the larger of the buffer
\* length and 16383; after every decoded question or preamble the global
\* cursor is at most the buffer length; on a buffer of up to 512 bytes no
\* cursor addition overflows.
C17_CursorRange ==
    /\ position <= Len(packet) + 63
    /\ iter.position <= Max(Len(packet), 16383)
    /\ \A i \in 1..Len(log) : log[i].ok => log[i].end <= Len(packet)
    /\ pc \in {"records", "ttl"} => position <= Len(packet)
    /\ Returned => position <= Len(packet)
    /\ Len(packet) <= 512 =>
        /\ result.tag # "Panic"
        /\ position + 64 < U16Modulus
        /\ iter.position + 64 < U16Modulus

\* the last byte of the buffer was read as the length of a 63-byte label
C17_Witness ==
    /\ Failed
    /\ log # <<>>
    /\ packet[Len(packet)] = 63
    /\ position = Len(packet) + 63
    /\ result = Err(OutOfBounds(Len(packet) + 62, Len(packet)))

====
